---- MODULE Spec2Model ----
(***************************************************************************)
(* Model of src/src/sign.rs: the multi-step (init-update-finish) Ed25519   *)
(* Verifier and Signer.  Each instance is a struct holding key material    *)
(* and a byte buffer `buf`; update appends, Verifier::verify reads,        *)
(* Signer::sign reads and clears.                                          *)
(*                                                                         *)
(* The Ed25519 primitive (crate ring) is external to the repository.  It   *)
(* is modelled symbolically at its call sites: a signature is the pair of  *)
(* the signing key and the signed message, so two signatures are equal     *)
(* exactly when key and message are equal (an ideal, collision-free and    *)
(* deterministic scheme), and verification accepts exactly the well-formed *)
(* signature made with the key of the given public key over the given      *)
(* message.                                                                *)
(*                                                                         *)
(* Besides the structs, the model keeps for every instance the log of the  *)
(* calls the caller made on it, with their arguments and return values.    *)
(* The logs are history only: no operation reads them.                     *)
(***************************************************************************)
EXTENDS Integers, Sequences, FiniteSets, TLC

\* Total number of calls (constructors included) made in one behaviour.
MaxCalls == 6

\* The bytes and the data arguments the caller passes to update.
Byte == {0, 1}
Chunks == {<< >>} \cup {<<b>> : b \in Byte}

\* Seeds given to Signer::new: two the primitive accepts, one it rejects
\* (wrong length).
GoodSeeds == {"seedA", "seedB"}
BadSeeds == {"seedShort"}
Seeds == GoodSeeds \cup BadSeeds

\* Total number of calls in one behaviour of SpecIso, which drives every
\* instance.
MaxIsoCalls == 5

\* Instance identities.  Spec drives the first Signer and the first Verifier.
SignerIds == {1, 2}
VerifierIds == {1, 2}
Driven == {1}

VARIABLES signer, verifier, slog, vlog, aborted

vars == <<signer, verifier, slog, vlog, aborted>>

(***************************************************************************)
(* The external primitive, as called from sign.rs.                         *)
(***************************************************************************)

\* Placeholders for the fields a value or log entry does not use.
NoKeyPair == [seed |-> "none"]
NoKey == [id |-> "none", wf |-> FALSE]
NoSig == [key |-> "none", msg |-> << >>, wf |-> FALSE]

\* Ed25519KeyPair::from_seed_unchecked: Err for a seed it does not accept.
PrimFromSeed(seed) ==
    IF seed \in GoodSeeds THEN [ok |-> TRUE, key_pair |-> [seed |-> seed]]
    ELSE [ok |-> FALSE, key_pair |-> NoKeyPair]

\* Ed25519KeyPair::public_key_bytes.
PrimPublicKey(key_pair) == [id |-> key_pair.seed, wf |-> TRUE]

\* Ed25519KeyPair::sign: deterministic in the key pair and the message.
PrimSign(key_pair, msg) == [key |-> key_pair.seed, msg |-> msg, wf |-> TRUE]

\* signature::verify(&ED25519, pubkey, msg, sig): Ok exactly for a well-formed
\* key and a well-formed signature made with that key over msg.
PrimVerify(pubkey, msg, sig) ==
    /\ pubkey.wf
    /\ sig.wf
    /\ sig.key = pubkey.id
    /\ sig.msg = msg

\* Public keys and signatures the caller holds without having called a Signer:
\* the keys of the good seeds and a key of the wrong length; signatures made
\* with seedA over the empty message and over <<0, 1>> (test vectors) and a
\* signature of the wrong length.
BadKey == [id |-> "short", wf |-> FALSE]
PubKeys == {PrimPublicKey(PrimFromSeed(s).key_pair) : s \in GoodSeeds} \cup {BadKey}
BadSig == [key |-> "short", msg |-> << >>, wf |-> FALSE]
KnownSigs ==
    { PrimSign([seed |-> "seedA"], << >>),
      PrimSign([seed |-> "seedA"], <<0, 1>>),
      BadSig }

(***************************************************************************)
(* The structs and their methods, as functions of the struct.              *)
(***************************************************************************)

\* An instance that was not constructed.
NoSigner == [live |-> FALSE, key_pair |-> NoKeyPair, buf |-> << >>]
NoVerifier == [live |-> FALSE, pubkey |-> NoKey, buf |-> << >>]

\* Verifier::new
Verifier_new(pubkey) == [live |-> TRUE, pubkey |-> pubkey, buf |-> << >>]

\* Verifier::update as a bug would have it: resize where reserve was meant, so
\* the buffer grows by zero bytes before the data is appended.
Verifier_update_Resizes(self, data) ==
    [self EXCEPT !.buf = self.buf \o [k \in 1..Len(data) |-> 0] \o data]

\* Verifier::update as a bug would have it: the data replaces the buffer.
Verifier_update_Overwrites(self, data) == [self EXCEPT !.buf = data]

\* Verifier::update
Verifier_update(self, data) == [self EXCEPT !.buf = self.buf \o data]

\* Verifier::verify as bugs would have it: the match arms swapped; an empty
\* buffer rejected without asking the primitive.
Verifier_verify_Negated(self, expected_sig) ==
    IF PrimVerify(self.pubkey, self.buf, expected_sig) THEN FALSE ELSE TRUE

Verifier_verify_RejectsEmpty(self, expected_sig) ==
    IF self.buf = << >> THEN FALSE
    ELSE IF PrimVerify(self.pubkey, self.buf, expected_sig) THEN TRUE ELSE FALSE

\* Verifier::verify (&self): the returned bool.
Verifier_verify(self, expected_sig) ==
    IF PrimVerify(self.pubkey, self.buf, expected_sig) THEN TRUE ELSE FALSE

\* Signer::new as a bug would have it: the buffer is made of zero bytes
\* (vec![0; n]) where only capacity was meant (Vec::with_capacity(n)).
Signer_new_ZeroFilled(seed) ==
    [live |-> TRUE, key_pair |-> PrimFromSeed(seed).key_pair, buf |-> <<0, 0>>]

\* Signer::new: the struct, given that unwrap() did not panic.
Signer_new(seed) ==
    [live |-> TRUE, key_pair |-> PrimFromSeed(seed).key_pair, buf |-> << >>]

\* Signer::update as a bug would have it: the data goes in front.
Signer_update_Prepends(self, data) == [self EXCEPT !.buf = data \o self.buf]

\* Signer::update
Signer_update(self, data) == [self EXCEPT !.buf = self.buf \o data]

\* Signer::sign as bugs would have it: the buffer is not cleared; it is
\* cleared before the signature is computed; it is cut to its first byte.
Signer_sign_NoClear(self) ==
    LET signature == PrimSign(self.key_pair, self.buf)
    IN  [self |-> self, signature |-> signature]

Signer_sign_ClearsFirst(self) ==
    LET cleared == [self EXCEPT !.buf = << >>]
    IN  [self |-> cleared, signature |-> PrimSign(cleared.key_pair, cleared.buf)]

Signer_sign_Truncates(self) ==
    LET signature == PrimSign(self.key_pair, self.buf)
    IN  [self |-> [self EXCEPT !.buf = IF self.buf = << >> THEN << >> ELSE <<Head(self.buf)>>],
         signature |-> signature]

\* Signer::sign as a bug would have it: the whole struct is reset, key pair
\* included.
Signer_sign_ResetsAll(self) ==
    LET signature == PrimSign(self.key_pair, self.buf)
    IN  [self |-> [self EXCEPT !.buf = << >>, !.key_pair = NoKeyPair],
         signature |-> signature]

\* Signer::sign (&mut self): the struct afterwards and the returned signature.
Signer_sign(self) ==
    LET signature == PrimSign(self.key_pair, self.buf)
    IN  [self |-> [self EXCEPT !.buf = << >>], signature |-> signature]

\* Signer::public_key_bytes (&self)
Signer_public_key_bytes(self) == PrimPublicKey(self.key_pair)

(***************************************************************************)
(* Call logs.                                                              *)
(***************************************************************************)

LogEntry(op, key, data, sig, ret) ==
    [op |-> op, key |-> key, data |-> data, sig |-> sig, ret |-> ret]

RECURSIVE SumLen(_, _)
SumLen(log, ids) ==
    IF ids = {} THEN 0
    ELSE LET i == CHOOSE x \in ids : TRUE
         IN  Len(log[i]) + SumLen(log, ids \ {i})

Calls == SumLen(slog, SignerIds) + SumLen(vlog, VerifierIds)

\* The caller can make one more call: the thread has not panicked.
CanCall == ~aborted /\ Calls < MaxCalls

\* Signatures returned so far by any Signer.
ReturnedSigs ==
    { slog[i][k].sig : <<i, k>> \in
        { p \in SignerIds \X (1..MaxCalls) :
            p[2] <= Len(slog[p[1]]) /\ slog[p[1]][p[2]].op = "sign" } }

\* The signatures the caller can pass to verify.
SigArgs == KnownSigs \cup ReturnedSigs

(***************************************************************************)
(* Operations.                                                             *)
(***************************************************************************)

Init ==
    /\ signer = [i \in SignerIds |-> NoSigner]
    /\ verifier = [j \in VerifierIds |-> NoVerifier]
    /\ slog = [i \in SignerIds |-> << >>]
    /\ vlog = [j \in VerifierIds |-> << >>]
    /\ aborted = FALSE

\* Signer::new as a bug would have it: the Err of from_seed_unchecked is not
\* unwrapped and a Signer without a usable key pair comes into existence.
SignerNew_IgnoresErr(i, seed) ==
    /\ CanCall
    /\ slog[i] = << >>
    /\ signer' = [signer EXCEPT ![i] = Signer_new(seed)]
    /\ slog' = [slog EXCEPT ![i] = <<LogEntry("new", NoKey, << >>, NoSig, seed)>>]
    /\ UNCHANGED <<verifier, vlog, aborted>>

\* let s = Signer::new(seed): unwrap() panics on Err and no Signer exists.
SignerNew(i, seed) ==
    /\ CanCall
    /\ slog[i] = << >>
    /\ IF PrimFromSeed(seed).ok
       THEN /\ signer' = [signer EXCEPT ![i] = Signer_new(seed)]
            /\ slog' = [slog EXCEPT ![i] = <<LogEntry("new", NoKey, << >>, NoSig, seed)>>]
            /\ aborted' = FALSE
       ELSE /\ signer' = signer
            /\ slog' = [slog EXCEPT ![i] = <<LogEntry("panic", NoKey, << >>, NoSig, seed)>>]
            /\ aborted' = TRUE
    /\ UNCHANGED <<verifier, vlog>>

\* s.update(data) as a bug would have it: the buffer is one static shared by
\* all Signers, so the data lands in every live Signer's buffer.
SignerUpdate_SharedBuf(i, data) ==
    /\ CanCall
    /\ signer[i].live
    /\ signer' = [k \in SignerIds |->
                    IF signer[k].live THEN Signer_update(signer[k], data) ELSE signer[k]]
    /\ slog' = [slog EXCEPT ![i] = Append(@, LogEntry("update", NoKey, data, NoSig, "unit"))]
    /\ UNCHANGED <<verifier, vlog, aborted>>

\* s.update(data)
SignerUpdate(i, data) ==
    /\ CanCall
    /\ signer[i].live
    /\ signer' = [signer EXCEPT ![i] = Signer_update(signer[i], data)]
    /\ slog' = [slog EXCEPT ![i] = Append(@, LogEntry("update", NoKey, data, NoSig, "unit"))]
    /\ UNCHANGED <<verifier, vlog, aborted>>

\* s.sign() as a bug would have it: the signature is handed out as a view of
\* storage that every sign call reuses (no to_vec()), so the signatures the
\* caller got earlier now read as the new one.
SignerSign_ReusesStorage(i) ==
    /\ CanCall
    /\ signer[i].live
    /\ LET r == Signer_sign(signer[i])
       IN  /\ signer' = [signer EXCEPT ![i] = r.self]
           /\ slog' = [slog EXCEPT ![i] =
                         Append([k \in 1..Len(@) |->
                                    IF @[k].op = "sign"
                                    THEN [@[k] EXCEPT !.sig = r.signature] ELSE @[k]],
                                LogEntry("sign", NoKey, << >>, r.signature, "sig"))]
    /\ UNCHANGED <<verifier, vlog, aborted>>

\* let sig = s.sign()
SignerSign(i) ==
    /\ CanCall
    /\ signer[i].live
    /\ LET r == Signer_sign(signer[i])
       IN  /\ signer' = [signer EXCEPT ![i] = r.self]
           /\ slog' = [slog EXCEPT ![i] =
                         Append(@, LogEntry("sign", NoKey, << >>, r.signature, "sig"))]
    /\ UNCHANGED <<verifier, vlog, aborted>>

\* let pk = s.public_key_bytes()
SignerPublicKeyBytes(i) ==
    /\ CanCall
    /\ signer[i].live
    /\ slog' = [slog EXCEPT ![i] =
                  Append(@, LogEntry("public_key_bytes",
                                     Signer_public_key_bytes(signer[i]), << >>, NoSig, "key"))]
    /\ UNCHANGED <<signer, verifier, vlog, aborted>>

\* Verifier::new as a bug would have it: the key is validated at
\* construction, which panics on a malformed key.
VerifierNew_Validates(j, pubkey) ==
    /\ CanCall
    /\ vlog[j] = << >>
    /\ IF pubkey.wf
       THEN /\ verifier' = [verifier EXCEPT ![j] = Verifier_new(pubkey)]
            /\ vlog' = [vlog EXCEPT ![j] = <<LogEntry("new", pubkey, << >>, NoSig, "unit")>>]
            /\ aborted' = FALSE
       ELSE /\ verifier' = verifier
            /\ vlog' = [vlog EXCEPT ![j] = <<LogEntry("panic", pubkey, << >>, NoSig, "unit")>>]
            /\ aborted' = TRUE
    /\ UNCHANGED <<signer, slog>>

\* let v = Verifier::new(pubkey)
VerifierNew(j, pubkey) ==
    /\ CanCall
    /\ vlog[j] = << >>
    /\ verifier' = [verifier EXCEPT ![j] = Verifier_new(pubkey)]
    /\ vlog' = [vlog EXCEPT ![j] = <<LogEntry("new", pubkey, << >>, NoSig, "unit")>>]
    /\ UNCHANGED <<signer, slog, aborted>>

\* v.update(data)
VerifierUpdate(j, data) ==
    /\ CanCall
    /\ verifier[j].live
    /\ verifier' = [verifier EXCEPT ![j] = Verifier_update(verifier[j], data)]
    /\ vlog' = [vlog EXCEPT ![j] = Append(@, LogEntry("update", NoKey, data, NoSig, "unit"))]
    /\ UNCHANGED <<signer, slog, aborted>>

\* v.verify(expected_sig) as bugs would have it: the buffer is cleared as
\* Signer::sign clears it: always, when the signature was accepted, when it
\* was rejected.
VerifierVerify_Clears(j, expected_sig) ==
    /\ CanCall
    /\ verifier[j].live
    /\ vlog' = [vlog EXCEPT ![j] =
                  Append(@, LogEntry("verify", NoKey, << >>, expected_sig,
                                     IF Verifier_verify(verifier[j], expected_sig)
                                     THEN "true" ELSE "false"))]
    /\ verifier' = [verifier EXCEPT ![j].buf = << >>]
    /\ UNCHANGED <<signer, slog, aborted>>

VerifierVerify_ClearsOnFail(j, expected_sig) ==
    /\ CanCall
    /\ verifier[j].live
    /\ vlog' = [vlog EXCEPT ![j] =
                  Append(@, LogEntry("verify", NoKey, << >>, expected_sig,
                                     IF Verifier_verify(verifier[j], expected_sig)
                                     THEN "true" ELSE "false"))]
    /\ verifier' = [verifier EXCEPT ![j].buf =
                      IF Verifier_verify(verifier[j], expected_sig) THEN @ ELSE << >>]
    /\ UNCHANGED <<signer, slog, aborted>>

VerifierVerify_ClearsOnOk(j, expected_sig) ==
    /\ CanCall
    /\ verifier[j].live
    /\ vlog' = [vlog EXCEPT ![j] =
                  Append(@, LogEntry("verify", NoKey, << >>, expected_sig,
                                     IF Verifier_verify(verifier[j], expected_sig)
                                     THEN "true" ELSE "false"))]
    /\ verifier' = [verifier EXCEPT ![j].buf =
                      IF Verifier_verify(verifier[j], expected_sig) THEN << >> ELSE @]
    /\ UNCHANGED <<signer, slog, aborted>>

\* v.verify(expected_sig) as a bug would have it: the primitive's Err is
\* unwrapped, so a rejected signature panics instead of returning false.
VerifierVerify_Unwraps(j, expected_sig) ==
    /\ CanCall
    /\ verifier[j].live
    /\ vlog' = [vlog EXCEPT ![j] =
                  Append(@, LogEntry("verify", NoKey, << >>, expected_sig,
                                     IF Verifier_verify(verifier[j], expected_sig)
                                     THEN "true" ELSE "panic"))]
    /\ aborted' = ~Verifier_verify(verifier[j], expected_sig)
    /\ UNCHANGED <<signer, verifier, slog>>

\* let result = v.verify(expected_sig): &self, the struct is not written.
VerifierVerify(j, expected_sig) ==
    /\ CanCall
    /\ verifier[j].live
    /\ vlog' = [vlog EXCEPT ![j] =
                  Append(@, LogEntry("verify", NoKey, << >>, expected_sig,
                                     IF Verifier_verify(verifier[j], expected_sig)
                                     THEN "true" ELSE "false"))]
    /\ UNCHANGED <<signer, verifier, slog, aborted>>

Next ==
    \/ \E i \in Driven, seed \in Seeds : SignerNew(i, seed)
    \/ \E i \in Driven, data \in Chunks : SignerUpdate(i, data)
    \/ \E i \in Driven : SignerSign(i)
    \/ \E i \in Driven : SignerPublicKeyBytes(i)
    \/ \E j \in Driven, pubkey \in PubKeys : VerifierNew(j, pubkey)
    \/ \E j \in Driven, data \in Chunks : VerifierUpdate(j, data)
    \/ \E j \in Driven, sig \in SigArgs : VerifierVerify(j, sig)

Spec == Init /\ [][Next]_vars

\* Several Signers and Verifiers alive at once, any of them called next.
IsoCall == Calls < MaxIsoCalls

NextIso ==
    \/ \E i \in SignerIds, seed \in Seeds : IsoCall /\ SignerNew(i, seed)
    \/ \E i \in SignerIds, data \in Chunks : IsoCall /\ SignerUpdate(i, data)
    \/ \E i \in SignerIds : IsoCall /\ SignerSign(i)
    \/ \E i \in SignerIds : IsoCall /\ SignerPublicKeyBytes(i)
    \/ \E j \in VerifierIds, pubkey \in PubKeys : IsoCall /\ VerifierNew(j, pubkey)
    \/ \E j \in VerifierIds, data \in Chunks : IsoCall /\ VerifierUpdate(j, data)
    \/ \E j \in VerifierIds, sig \in SigArgs : IsoCall /\ VerifierVerify(j, sig)

SpecIso == Init /\ [][NextIso]_vars

(***************************************************************************)
(* Reading the call logs.                                                  *)
(***************************************************************************)

\* The concatenation, in call order, of the data arguments of the update
\* calls among entries a..b of a log.
RECURSIVE DataIn(_, _, _)
DataIn(log, a, b) ==
    IF a > b THEN << >>
    ELSE IF log[b].op = "update" THEN DataIn(log, a, b - 1) \o log[b].data
    ELSE DataIn(log, a, b - 1)

\* The index of the last call of operation op before entry k, 0 if none.
RECURSIVE LastBefore(_, _, _)
LastBefore(log, op, k) ==
    IF k <= 1 THEN 0
    ELSE IF log[k - 1].op = op THEN k - 1
    ELSE LastBefore(log, op, k - 1)

\* What the caller accumulated on a Signer before entry k since the sign call
\* before it (or since construction), and on a Verifier since construction.
SignerPending(log, k) == DataIn(log, LastBefore(log, "sign", k) + 1, k - 1)
VerifierHistory(log, k) == DataIn(log, 1, k - 1)

\* The entries of a log that are calls of op.
CallsOf(log, op) == {k \in 1..Len(log) : log[k].op = op}

\* The seed a Signer was constructed from.
SeedOf(i) == slog[i][1].ret

(***************************************************************************)
(* Claims.                                                                 *)
(***************************************************************************)

\* C1: in every reachable state a Signer's buffer is the in-order
\* concatenation of the data of exactly the update calls made since the most
\* recent sign call, or since construction if sign was never called.
C1_SignerBufferIsPending ==
    \A i \in SignerIds :
        signer[i].live =>
            signer[i].buf = SignerPending(slog[i], Len(slog[i]) + 1)

\* A Signer that accumulated data, signed, and accumulated two non-empty
\* chunks since.
C1_Witness ==
    \E i \in SignerIds :
        LET log == slog[i]
            n == Len(log)
        IN  /\ signer[i].live
            /\ n >= 5
            /\ log[n].op = "update" /\ log[n].data # << >>
            /\ log[n - 1].op = "update" /\ log[n - 1].data # << >>
            /\ log[n].data # log[n - 1].data
            /\ log[n - 2].op = "sign"
            /\ log[n - 3].op = "update" /\ log[n - 3].data # << >>

\* C2: every sign call returns the primitive's signature, under the key pair
\* derived at construction, over exactly the bytes accumulated since
\* construction or since the previous sign call, whatever was accumulated
\* and signed before that.
C2_SignSignsPending ==
    \A i \in SignerIds :
        \A k \in CallsOf(slog[i], "sign") :
            slog[i][k].sig =
                PrimSign(PrimFromSeed(SeedOf(i)).key_pair, SignerPending(slog[i], k))

\* A Signer that signed two different non-empty messages in a row.
C2_Witness ==
    \E i \in SignerIds :
        LET log == slog[i]
        IN  \E k1, k2 \in CallsOf(log, "sign") :
                /\ k1 < k2
                /\ LastBefore(log, "sign", k2) = k1
                /\ SignerPending(log, k1) # << >>
                /\ SignerPending(log, k2) # << >>
                /\ SignerPending(log, k1) # SignerPending(log, k2)
                /\ log[k1].sig # log[k2].sig

\* C3: right after a sign call the buffer is empty, and a sign call that
\* directly follows a sign call returns the signature of the empty message,
\* which is what a fresh Signer of the same seed returns from sign.
C3_SignClearsBuffer ==
    \A i \in SignerIds :
        LET log == slog[i]
            n == Len(log)
        IN  /\ (n >= 1 /\ log[n].op = "sign") => signer[i].buf = << >>
            /\ \A k \in CallsOf(log, "sign") :
                   (k > 1 /\ log[k - 1].op = "sign") =>
                       /\ log[k].sig = PrimSign(PrimFromSeed(SeedOf(i)).key_pair, << >>)
                       /\ log[k].sig = Signer_sign(Signer_new(SeedOf(i))).signature

\* A Signer whose last three calls are update of non-empty data, sign, sign.
C3_Witness ==
    \E i \in SignerIds :
        LET log == slog[i]
            n == Len(log)
        IN  /\ n >= 4
            /\ log[n].op = "sign"
            /\ log[n - 1].op = "sign"
            /\ log[n - 2].op = "update" /\ log[n - 2].data # << >>
            /\ log[n].sig # log[n - 1].sig

\* C4: in every reachable state a Verifier's buffer is the in-order
\* concatenation of the data of all update calls made since construction,
\* whatever verify calls were made in between and whatever they returned.
C4_VerifierBufferIsHistory ==
    \A j \in VerifierIds :
        verifier[j].live =>
            verifier[j].buf = VerifierHistory(vlog[j], Len(vlog[j]) + 1)

\* A Verifier that was updated, verified with success, updated again and
\* verified with failure.
C4_Witness ==
    \E j \in VerifierIds :
        LET log == vlog[j]
        IN  \E k1, k2 \in CallsOf(log, "verify") :
                /\ k1 < k2
                /\ log[k1].ret = "true"
                /\ log[k2].ret = "false"
                /\ VerifierHistory(log, k1) # << >>
                /\ VerifierHistory(log, k2) # VerifierHistory(log, k1)
                /\ Len(verifier[j].buf) >= 2

\* C5: a verify call, whatever the signature and whatever it returns, leaves
\* the Verifier's buffer and stored public key as they were.
IsVerifyCall(j) ==
    /\ Len(vlog'[j]) = Len(vlog[j]) + 1
    /\ vlog'[j][Len(vlog'[j])].op = "verify"

C5_VerifyIsPureRead ==
    [][\A j \in VerifierIds :
           IsVerifyCall(j) =>
               /\ verifier'[j].buf = verifier[j].buf
               /\ verifier'[j].pubkey = verifier[j].pubkey
               /\ verifier'[j] = verifier[j]]_vars

\* A Verifier with a non-empty buffer on which verify returned true and
\* returned false.
C5_Witness ==
    \E j \in VerifierIds :
        LET log == vlog[j]
        IN  /\ verifier[j].buf # << >>
            /\ \E k1, k2 \in CallsOf(log, "verify") :
                   /\ log[k1].ret = "true"
                   /\ log[k2].ret = "false"
                   /\ VerifierHistory(log, k1) # << >>
                   /\ VerifierHistory(log, k2) # << >>

\* C6: verify returns true if and only if the primitive accepts the stored
\* public key, the buffer's full contents at that call, and the signature.
C6_VerifyIffPrimitiveAccepts ==
    \A j \in VerifierIds :
        LET log == vlog[j]
        IN  \A k \in CallsOf(log, "verify") :
                (log[k].ret = "true") <=>
                    PrimVerify(log[1].key, VerifierHistory(log, k), log[k].sig)

\* A Verifier on which verify accepted a signature of the empty message and
\* a signature of a non-empty message, and rejected a well-formed signature.
C6_Witness ==
    \E j \in VerifierIds :
        LET log == vlog[j]
        IN  \E k1, k2, k3 \in CallsOf(log, "verify") :
                /\ log[k1].ret = "true" /\ VerifierHistory(log, k1) = << >>
                /\ log[k2].ret = "true" /\ VerifierHistory(log, k2) # << >>
                /\ log[k3].ret = "false" /\ log[k3].sig.wf

\* C7: incremental equivalence.  Whatever chunks (empty ones included) the
\* caller passed to update, sign returns what a Signer of the same seed
\* returns after one update with their concatenation, and verify returns
\* what a Verifier of the same public key returns after one update with
\* their concatenation.
C7_IncrementalEquivalence ==
    /\ \A i \in SignerIds :
           LET log == slog[i]
           IN  \A k \in CallsOf(log, "sign") :
                   log[k].sig =
                       Signer_sign(Signer_update(Signer_new(SeedOf(i)),
                                                 SignerPending(log, k))).signature
    /\ \A j \in VerifierIds :
           LET log == vlog[j]
           IN  \A k \in CallsOf(log, "verify") :
                   (log[k].ret = "true") =
                       Verifier_verify(Verifier_update(Verifier_new(log[1].key),
                                                       VerifierHistory(log, k)),
                                       log[k].sig)

\* A Signer that signed after the chunks <<0>>, << >>, <<1>> in some order
\* with the non-empty ones apart.
C7_Witness ==
    \E i \in SignerIds :
        LET log == slog[i]
        IN  \E k \in CallsOf(log, "sign") :
                /\ k >= 5
                /\ log[k - 1].op = "update" /\ log[k - 1].data # << >>
                /\ log[k - 2].op = "update" /\ log[k - 2].data = << >>
                /\ log[k - 3].op = "update" /\ log[k - 3].data # << >>
                /\ log[k - 1].data # log[k - 3].data
                /\ Len(log[k].sig.msg) = 2

\* The same case on a Verifier, with verify accepting the signature.
C7_WitnessVerifier ==
    \E j \in VerifierIds :
        LET log == vlog[j]
        IN  \E k \in CallsOf(log, "verify") :
                /\ k >= 5
                /\ log[k].ret = "true"
                /\ log[k - 1].op = "update" /\ log[k - 1].data # << >>
                /\ log[k - 2].op = "update" /\ log[k - 2].data = << >>
                /\ log[k - 3].op = "update" /\ log[k - 3].data # << >>

\* C8: round trip.  When a Signer signed message M, and a Verifier built with
\* that Signer's public key accumulated the same M and was given that
\* signature, verify returned true.
C8_RoundTrip ==
    \A i \in SignerIds, j \in VerifierIds :
        \A ks \in CallsOf(slog[i], "sign"), kv \in CallsOf(vlog[j], "verify") :
            ( /\ vlog[j][1].key = Signer_public_key_bytes(signer[i])
              /\ vlog[j][kv].sig = slog[i][ks].sig
              /\ VerifierHistory(vlog[j], kv) = SignerPending(slog[i], ks) )
            => vlog[j][kv].ret = "true"

\* A Signer signed a non-empty message and a Verifier with its key and the
\* same message was given the signature.
C8_Witness ==
    \E i \in SignerIds, j \in VerifierIds :
        \E ks \in CallsOf(slog[i], "sign"), kv \in CallsOf(vlog[j], "verify") :
            /\ vlog[j][1].key = Signer_public_key_bytes(signer[i])
            /\ vlog[j][kv].sig = slog[i][ks].sig
            /\ VerifierHistory(vlog[j], kv) = SignerPending(slog[i], ks)
            /\ SignerPending(slog[i], ks) # << >>
            /\ vlog[j][kv].ret = "true"

\* C9: a verify call made after further updates checks the signature against
\* everything accumulated since construction: for two verify calls with the
\* same signature and non-empty data B accumulated between them, the first
\* having seen A, the second returns what the primitive says of A followed
\* by B; and a signature valid for A was accepted at the first.
C9_VerifyChecksWholeHistory ==
    \A j \in VerifierIds :
        LET log == vlog[j]
        IN  \A k1, k2 \in CallsOf(log, "verify") :
                LET A == VerifierHistory(log, k1)
                    B == DataIn(log, k1 + 1, k2 - 1)
                IN  (k1 < k2 /\ log[k1].sig = log[k2].sig /\ B # << >>) =>
                        /\ PrimVerify(log[1].key, A, log[k1].sig) => log[k1].ret = "true"
                        /\ (log[k2].ret = "true") <=>
                               PrimVerify(log[1].key, A \o B, log[k2].sig)

\* A Verifier that accepted a signature for non-empty A, then accumulated
\* non-empty B and rejected the same signature; or that rejected a signature
\* at A and accepted it at A followed by B, which it is not a signature of B.
C9_Witness ==
    \E j \in VerifierIds :
        LET log == vlog[j]
        IN  \E k1, k2 \in CallsOf(log, "verify") :
                LET A == VerifierHistory(log, k1)
                    B == DataIn(log, k1 + 1, k2 - 1)
                IN  /\ k1 < k2 /\ log[k1].sig = log[k2].sig
                    /\ A # << >> /\ B # << >>
                    /\ log[k1].ret = "true"
                    /\ log[k2].ret = "false"

\* The other direction: rejected at A, accepted at A followed by B.
C9_WitnessGrown ==
    \E j \in VerifierIds :
        LET log == vlog[j]
        IN  \E k1, k2 \in CallsOf(log, "verify") :
                LET A == VerifierHistory(log, k1)
                    B == DataIn(log, k1 + 1, k2 - 1)
                IN  /\ k1 < k2 /\ log[k1].sig = log[k2].sig
                    /\ A # << >> /\ B # << >>
                    /\ log[k1].ret = "false"
                    /\ log[k2].ret = "true"
                    /\ ~PrimVerify(log[1].key, B, log[k2].sig)

\* C10: two consecutive verify calls with the same signature and no update
\* between them return the same boolean.
C10_VerifyRepeatable ==
    \A j \in VerifierIds :
        LET log == vlog[j]
        IN  \A k \in CallsOf(log, "verify") :
                (k < Len(log) /\ log[k + 1].op = "verify" /\ log[k + 1].sig = log[k].sig)
                    => log[k + 1].ret = log[k].ret

\* A Verifier that returned true twice in a row and, its buffer non-empty,
\* false twice in a row.
C10_Witness ==
    \E j \in VerifierIds :
        LET log == vlog[j]
        IN  \E k1, k2 \in CallsOf(log, "verify") :
                /\ k1 < Len(log) /\ k2 < Len(log)
                /\ log[k1 + 1].op = "verify" /\ log[k1 + 1].sig = log[k1].sig
                /\ log[k2 + 1].op = "verify" /\ log[k2 + 1].sig = log[k2].sig
                /\ log[k1].ret = "true" /\ log[k1 + 1].ret = "true"
                /\ log[k2].ret = "false" /\ log[k2 + 1].ret = "false"
                /\ VerifierHistory(log, k2) # << >>

\* C11: verify never produces an error outcome.  Every verify call returned
\* true or false; it returned false when the stored key is malformed, when
\* the signature is malformed, and when key, buffer and signature do not
\* match; and the thread is aborted only by a panic of Signer::new, never
\* by verify.
C11_VerifyNeverErrs ==
    /\ \A j \in VerifierIds :
           LET log == vlog[j]
           IN  \A k \in CallsOf(log, "verify") :
                   /\ log[k].ret \in {"true", "false"}
                   /\ ( \/ ~log[1].key.wf
                        \/ ~log[k].sig.wf
                        \/ log[k].sig.key # log[1].key.id
                        \/ log[k].sig.msg # VerifierHistory(log, k) )
                      => log[k].ret = "false"
    /\ aborted => \E i \in SignerIds : slog[i] # << >> /\ slog[i][1].op = "panic"

\* A Verifier with a well-formed key that was given a malformed signature, a
\* signature made with another key over its buffer, and a signature made
\* with its key over another message, the thread still running.
C11_Witness ==
    \E j \in VerifierIds :
        LET log == vlog[j]
        IN  /\ ~aborted
            /\ log # << >> /\ log[1].key.wf
            /\ \E k1, k2, k3 \in CallsOf(log, "verify") :
                   /\ ~log[k1].sig.wf
                   /\ log[k2].sig.wf /\ log[k2].sig.key # log[1].key.id
                   /\ log[k2].sig.msg = VerifierHistory(log, k2)
                   /\ log[k3].sig.wf /\ log[k3].sig.key = log[1].key.id
                   /\ log[k3].sig.msg # VerifierHistory(log, k3)

\* A Verifier with a malformed key that was given a signature which a
\* well-formed key would have made valid for its buffer.
C11_WitnessBadKey ==
    \E j \in VerifierIds :
        LET log == vlog[j]
        IN  /\ ~aborted
            /\ log # << >> /\ ~log[1].key.wf
            /\ \E k \in CallsOf(log, "verify") :
                   /\ log[k].sig.wf
                   /\ log[k].sig.msg = VerifierHistory(log, k)
                   /\ log[k].ret = "false"
                   /\ k < Len(log)

\* C12: Signer::new with a seed the primitive rejects fails fatally: the
\* call panics, no Signer exists and no call is ever made on it.  With a
\* seed the primitive accepts it succeeds, with an empty buffer and the key
\* pair derived from the seed.
C12_SignerNewFailsOnBadSeed ==
    \A i \in SignerIds :
        LET log == slog[i]
        IN  log # << >> =>
                IF PrimFromSeed(SeedOf(i)).ok
                THEN /\ log[1].op = "new"
                     /\ signer[i].live
                     /\ signer[i].key_pair = PrimFromSeed(SeedOf(i)).key_pair
                     /\ Len(log) = 1 => signer[i].buf = << >>
                ELSE /\ log[1].op = "panic"
                     /\ ~signer[i].live
                     /\ Len(log) = 1
                     /\ aborted

\* Signer::new was called with the malformed seed after a Verifier had been
\* built and used.
C12_Witness ==
    \E i \in SignerIds, j \in VerifierIds :
        /\ slog[i] # << >>
        /\ SeedOf(i) \in BadSeeds
        /\ slog[i][1].op = "panic"
        /\ aborted
        /\ Len(vlog[j]) >= 2

\* Signer::new succeeded with a well-formed seed.
C12_WitnessGood ==
    \E i \in SignerIds :
        /\ Len(slog[i]) = 1
        /\ SeedOf(i) \in GoodSeeds
        /\ signer[i].live /\ signer[i].buf = << >>

\* C13: Verifier::new never fails and validates nothing: whatever the key,
\* malformed ones included, the Verifier exists afterwards with that key
\* and an empty buffer, the thread runs on, and a malformed key shows only
\* as verify returning false.
C13_VerifierNewNeverFails ==
    \A j \in VerifierIds :
        LET log == vlog[j]
        IN  log # << >> =>
                /\ log[1].op = "new"
                /\ verifier[j].live
                /\ verifier[j].pubkey = log[1].key
                /\ Len(log) = 1 => verifier[j].buf = << >>
                /\ Len(log) = 1 =>
                       (aborted => \E i \in SignerIds :
                                       slog[i] # << >> /\ slog[i][1].op = "panic")
                /\ ~log[1].key.wf =>
                       \A k \in CallsOf(log, "verify") : log[k].ret = "false"

\* A Verifier built with the malformed key that accumulated data and
\* returned false for a signature that suits its buffer.
C13_Witness ==
    \E j \in VerifierIds :
        LET log == vlog[j]
        IN  /\ log # << >> /\ ~log[1].key.wf
            /\ verifier[j].live /\ verifier[j].pubkey = BadKey
            /\ ~aborted
            /\ \E k \in CallsOf(log, "verify") :
                   /\ log[k].sig.wf
                   /\ log[k].sig.msg = VerifierHistory(log, k)
                   /\ VerifierHistory(log, k) # << >>
                   /\ log[k].ret = "false"

\* C14: a Signer's key pair is never mutated after construction.  Every
\* step leaves the key pair of a live Signer as it was, the key pair is the
\* one derived from the construction seed, every public_key_bytes call
\* returned that key pair's public key, and a public_key_bytes call leaves
\* the struct, buffer included, as it was.
IsSignerCall(i, op) ==
    /\ Len(slog'[i]) = Len(slog[i]) + 1
    /\ slog'[i][Len(slog'[i])].op = op

C14_KeyPairImmutable ==
    [][\A i \in SignerIds :
           /\ signer[i].live =>
                  /\ signer'[i].live
                  /\ signer'[i].key_pair = signer[i].key_pair
                  /\ signer[i].key_pair = PrimFromSeed(SeedOf(i)).key_pair
           /\ IsSignerCall(i, "public_key_bytes") =>
                  /\ signer'[i] = signer[i]
                  /\ slog'[i][Len(slog'[i])].key =
                         PrimPublicKey(PrimFromSeed(SeedOf(i)).key_pair)]_vars

\* A Signer whose public key was asked for before and after a non-empty
\* update and a sign, with the same answer.
C14_Witness ==
    \E i \in SignerIds :
        LET log == slog[i]
        IN  \E k1, k2 \in CallsOf(log, "public_key_bytes") :
                /\ k1 < k2
                /\ \E k \in CallsOf(log, "sign") : k1 < k /\ k < k2
                /\ \E k \in CallsOf(log, "update") : k1 < k /\ k < k2 /\ log[k].data # << >>
                /\ log[k1].key = log[k2].key
                /\ log[k2].key = PrimPublicKey(PrimFromSeed(SeedOf(i)).key_pair)

\* C16: instance isolation.  A call on one instance (the one whose log
\* grows) leaves the buffer and key material of every other Signer and
\* Verifier as they were, also when instances share a seed or a public key.
C16_InstanceIsolation ==
    [][/\ \A i \in SignerIds :
              slog'[i] # slog[i] =>
                  /\ \A k \in SignerIds \ {i} : signer'[k] = signer[k] /\ slog'[k] = slog[k]
                  /\ \A j \in VerifierIds : verifier'[j] = verifier[j] /\ vlog'[j] = vlog[j]
       /\ \A j \in VerifierIds :
              vlog'[j] # vlog[j] =>
                  /\ \A k \in VerifierIds \ {j} : verifier'[k] = verifier[k] /\ vlog'[k] = vlog[k]
                  /\ \A i \in SignerIds : signer'[i] = signer[i] /\ slog'[i] = slog[i]]_vars

\* Two Signers built from one seed and two Verifiers built with one public
\* key are alive, and the two Signers' buffers differ.
C16_Witness ==
    /\ \A i \in SignerIds : signer[i].live
    /\ \A j \in VerifierIds : verifier[j].live
    /\ signer[1].key_pair = signer[2].key_pair
    /\ verifier[1].pubkey = verifier[2].pubkey
    /\ signer[1].buf # signer[2].buf

\* Two Verifiers built with one public key whose buffers differ, one of them
\* having verified.
C16_WitnessVerifiers ==
    /\ \A j \in VerifierIds : verifier[j].live
    /\ verifier[1].pubkey = verifier[2].pubkey
    /\ verifier[1].buf # verifier[2].buf
    /\ \E j \in VerifierIds : CallsOf(vlog[j], "verify") # {}

\* C17: the buffer of a fresh Signer or Verifier is empty, and the terminal
\* operation may be the first call: sign then returns the signature of the
\* empty message, and verify returns what the primitive says of the stored
\* key, the empty message and the signature.
C17_FreshBufferEmpty ==
    /\ \A i \in SignerIds :
           LET log == slog[i]
           IN  /\ (Len(log) = 1 /\ signer[i].live) => signer[i].buf = << >>
               /\ (Len(log) >= 2 /\ log[2].op = "sign") =>
                      log[2].sig = PrimSign(PrimFromSeed(SeedOf(i)).key_pair, << >>)
    /\ \A j \in VerifierIds :
           LET log == vlog[j]
           IN  /\ Len(log) = 1 => verifier[j].buf = << >>
               /\ (Len(log) >= 2 /\ log[2].op = "verify") =>
                      ((log[2].ret = "true") <=> PrimVerify(log[1].key, << >>, log[2].sig))

\* A Signer whose first call was sign, a Verifier whose first call was
\* verify, and verify accepted the Signer's signature of the empty message.
C17_Witness ==
    \E i \in SignerIds, j \in VerifierIds :
        /\ Len(slog[i]) >= 2 /\ slog[i][2].op = "sign"
        /\ Len(vlog[j]) >= 2 /\ vlog[j][2].op = "verify"
        /\ vlog[j][2].sig = slog[i][2].sig
        /\ vlog[j][2].ret = "true"

\* A Verifier whose first call was verify, with a signature of a non-empty
\* message, which it rejected.
C17_WitnessRejected ==
    \E j \in VerifierIds :
        /\ Len(vlog[j]) >= 2 /\ vlog[j][2].op = "verify"
        /\ vlog[j][2].sig.wf /\ vlog[j][2].sig.msg # << >>
        /\ vlog[j][2].sig.key = vlog[j][1].key.id
        /\ vlog[j][2].ret = "false"

\* C18: update, on a Signer and on a Verifier, never fails and only grows
\* the buffer: after the call the buffer is the old buffer followed by the
\* data, longer by exactly the length of the data, the old content an
\* unchanged prefix, the key material unchanged, the instance alive and the
\* thread running.
IsVerifierCall(j, op) ==
    /\ Len(vlog'[j]) = Len(vlog[j]) + 1
    /\ vlog'[j][Len(vlog'[j])].op = op

C18_UpdateOnlyAppends ==
    [][/\ \A i \in SignerIds :
              IsSignerCall(i, "update") =>
                  LET data == slog'[i][Len(slog'[i])].data
                  IN  /\ signer'[i].buf = signer[i].buf \o data
                      /\ Len(signer'[i].buf) = Len(signer[i].buf) + Len(data)
                      /\ SubSeq(signer'[i].buf, 1, Len(signer[i].buf)) = signer[i].buf
                      /\ signer'[i].key_pair = signer[i].key_pair
                      /\ signer'[i].live
                      /\ ~aborted'
       /\ \A j \in VerifierIds :
              IsVerifierCall(j, "update") =>
                  LET data == vlog'[j][Len(vlog'[j])].data
                  IN  /\ verifier'[j].buf = verifier[j].buf \o data
                      /\ Len(verifier'[j].buf) = Len(verifier[j].buf) + Len(data)
                      /\ SubSeq(verifier'[j].buf, 1, Len(verifier[j].buf)) = verifier[j].buf
                      /\ verifier'[j].pubkey = verifier[j].pubkey
                      /\ verifier'[j].live
                      /\ ~aborted']_vars

\* A Signer and a Verifier each updated with empty data and with non-empty
\* data.
C18_Witness ==
    \E i \in SignerIds, j \in VerifierIds :
        /\ \E k1, k2 \in CallsOf(slog[i], "update") :
               slog[i][k1].data = << >> /\ slog[i][k2].data # << >>
        /\ \E k1, k2 \in CallsOf(vlog[j], "update") :
               vlog[j][k1].data = << >> /\ vlog[j][k2].data # << >>
        /\ signer[i].buf # << >>
        /\ verifier[j].buf # << >>

\* C19: the signature sign returns is computed from the buffer as it was
\* before the call cleared it, and it is the caller's own value: no later
\* call changes a signature returned earlier.
C19_SignatureIndependent ==
    [][\A i \in SignerIds :
           /\ IsSignerCall(i, "sign") =>
                  /\ slog'[i][Len(slog'[i])].sig =
                         PrimSign(signer[i].key_pair, signer[i].buf)
                  /\ signer'[i].buf = << >>
           /\ Len(slog'[i]) >= Len(slog[i])
           /\ \A k \in CallsOf(slog[i], "sign") : slog'[i][k].sig = slog[i][k].sig]_vars

\* A Signer that returned a signature of a non-empty message and was then
\* updated, made to sign a different message, and updated again.
C19_Witness ==
    \E i \in SignerIds :
        LET log == slog[i]
            n == Len(log)
        IN  \E k1, k2 \in CallsOf(log, "sign") :
                /\ k1 < k2 /\ k2 < n
                /\ log[n].op = "update" /\ log[n].data # << >>
                /\ log[k1].sig.msg # << >>
                /\ log[k2].sig # log[k1].sig
                /\ log[k1].sig =
                       PrimSign(PrimFromSeed(SeedOf(i)).key_pair, SignerPending(log, k1))

====
